---- MODULE Spec2Model ----
(***************************************************************************)
(* Verification model of the med-agent chat orchestration core:            *)
(*   backend/app/api/chat.py            chat, handle_ask_mode,             *)
(*                                      handle_rag_mode, handle_agent_mode *)
(*   backend/app/services/llm_service.py  generate_response,               *)
(*                                      generate_response_with_tools       *)
(*   backend/app/services/mcp_service.py  MCPService (tool server registry *)
(*                                      and tool dispatch)                 *)
(*   backend/app/api/mcp.py             registry endpoints                 *)
(*                                                                         *)
(* Texts are sequences of tokens, so that concatenation is \o.  A stream   *)
(* event is the record that json.dumps serialises: [content |-> ..],       *)
(* [sources |-> ..], [action |-> ..], [error |-> ..], [done |-> TRUE] or   *)
(* [tool_calls |-> .., done |-> TRUE].                                     *)
(***************************************************************************)
EXTENDS Naturals, Sequences, FiniteSets, TLC

VARIABLES
    chatServers,    \* chat.py:21   mcp_service.servers of the chat module's MCPService
    apiServers,     \* mcp.py:13    mcp_service.servers of the registry module's MCPService
    nextId,         \* number of uuid4 server ids drawn so far
    regChanged,     \* history: a registry operation ran while the request was in progress
    client,         \* behaviour of the generation client for this request
    mode,           \* request.mode
    stream,         \* request.stream
    pc,             \* position of the request handler
    called,         \* external clients invoked so far by the request
    failed,         \* external clients that raised during the request
    search_results, \* handle_rag_mode: search_results
    context,        \* handle_rag_mode: context (<<>> while there is none)
    consumed,       \* history: what the generation client has produced so far
    batch,          \* tool calls of the current tool_calls chunk not yet executed
    function_name,  \* local of handle_agent_mode (None before first assignment)
    arguments,      \* local of handle_agent_mode (Unbound before first assignment)
    response_text,  \* local response_text of the non-streaming paths
    action_trace,   \* action_trace (streaming) / tool_calls (non-streaming)
    snapshot,       \* history: the dispatch registry's active servers when the request arrived
    resolved,       \* history: per executed invocation, the server it resolved to
    events,         \* events written to the stream so far
    outcome,        \* what chat() returned or raised
    tasks,          \* the locals of the handlers of two requests served concurrently
    conversation_history, \* request.conversation_history
    message,        \* request.message
    messages,       \* chat: all_messages, the handlers' parameter `messages`
    api_messages,   \* generate_response(_with_tools): api_messages
    mcp_tool_call,  \* call_tool: its parameter tool_call, the MCPToolCall being executed
    target_server,  \* execute_function_call: target_server (<<>> while there is none)
    posted,         \* history: the POSTs issued to tool servers through the registry module
    response        \* what the method of MCPService returned to the endpoint

vars == <<chatServers, apiServers, nextId, regChanged, client, mode, stream, pc,
          called, failed, search_results, context, consumed, batch, function_name,
          arguments, response_text, action_trace, snapshot, resolved, events,
          outcome, tasks, conversation_history, message, messages, api_messages,
          mcp_tool_call, target_server, posted, response>>

callVars == <<mcp_tool_call, target_server, posted, response>>

msgVars == <<conversation_history, message, messages, api_messages>>

regVars == <<apiServers, nextId>>
reqVars == <<client, mode, stream, pc, called, failed, search_results, context,
             consumed,
             batch, function_name, arguments, response_text, action_trace,
             snapshot, resolved, events, outcome>>

-----------------------------------------------------------------------------
(* Bounds of the model *)

MaxServers == 1       \* registrations per run
MaxChunks == 2        \* chunks one generation stream yields before it ends
MaxBatch == 2         \* tool calls in one tool_calls chunk
MaxDocs == 2          \* documents the retrieval client returns
MaxLoopRounds == 9    \* rounds of the client that asks for a tool every round
MaxFormatDocs == 3    \* documents handed to format_rag_context
MaxPairChunks == 2    \* chunks per completion stream when two requests run together
MaxHistory == 2       \* messages in request.conversation_history
MaxRegistry == 3      \* servers in a registry execute_function_call is applied to

-----------------------------------------------------------------------------
(* Values *)

None == "None"

\* before any tool call has reached the registry module
NoToolCall == [tool_name |-> None, server_id |-> 0]
NoResponse == [status |-> 0]
Unbound == [unbound |-> TRUE]

\* ChatMode (models/chat.py:6-9) and one value outside it
ChatMode == {"ask", "rag", "agent"}
OtherMode == "other"

Frags == {"a", "b"}
ErrText == <<"Error generating response">>

RECURSIVE Concat(_)
Concat(texts) ==
    IF texts = <<>> THEN <<>> ELSE Head(texts) \o Concat(Tail(texts))

Last(s) == s[Len(s)]

SeqsUpTo(S, n) == UNION {[1..k -> S] : k \in 0..n}

-----------------------------------------------------------------------------
(* Tool server registry: MCPService *)

\* function_map of execute_function_call
function_map ==
    [web_search |-> "web-browse", read_file |-> "filesystem",
     pubmed_search |-> "pubmed", neo4j_query |-> "neo4j",
     marklogic_query |-> "marklogic"]

\* mutant: a function that is not in the map falls back to the first category
FunctionMapGet_fallback(fname) ==
    IF fname \in DOMAIN function_map THEN function_map[fname] ELSE "web-browse"

FunctionMapGet(fname) ==
    IF fname \in DOMAIN function_map THEN function_map[fname] ELSE None

\* the characters of the strings the model uses
Chars(s) ==
    CASE s = "web-browse" -> <<"w","e","b","-","b","r","o","w","s","e">>
      [] s = "filesystem" -> <<"f","i","l","e","s","y","s","t","e","m">>
      [] s = "pubmed" -> <<"p","u","b","m","e","d">>
      [] s = "neo4j" -> <<"n","e","o","4","j">>
      [] s = "marklogic" -> <<"m","a","r","k","l","o","g","i","c">>
      [] s = "My Web-Browse" ->
            <<"M","y"," ","W","e","b","-","B","r","o","w","s","e">>
      [] s = "PubMed" -> <<"P","u","b","M","e","d">>
      [] s = "web" -> <<"w","e","b">>
      [] s = "web_search" -> <<"w","e","b","_","s","e","a","r","c","h">>
      [] s = "read_file" -> <<"r","e","a","d","_","f","i","l","e">>
      [] s = "pubmed_search" ->
            <<"p","u","b","m","e","d","_","s","e","a","r","c","h">>
      [] s = "neo4j_query" -> <<"n","e","o","4","j","_","q","u","e","r","y">>
      [] s = "marklogic_query" ->
            <<"m","a","r","k","l","o","g","i","c","_","q","u","e","r","y">>
      [] s = "No active server found for " ->
            <<"N","o"," ","a","c","t","i","v","e"," ","s","e","r","v","e","r",
              " ","f","o","u","n","d"," ","f","o","r"," ">>

\* str.lower() on one character: the 26 upper-case letters map to their
\* lower-case letters, every other character of the model's strings (lower-
\* case letters, digits, space, "-", "_") is left as it is
UpperCase ==
    <<"A","B","C","D","E","F","G","H","I","J","K","L","M",
      "N","O","P","Q","R","S","T","U","V","W","X","Y","Z">>
LowerCase ==
    <<"a","b","c","d","e","f","g","h","i","j","k","l","m",
      "n","o","p","q","r","s","t","u","v","w","x","y","z">>

LowerChar(c) ==
    IF \E i \in 1..Len(UpperCase) : UpperCase[i] = c
    THEN LowerCase[CHOOSE i \in 1..Len(UpperCase) : UpperCase[i] = c]
    ELSE c

Lower(cs) == [i \in 1..Len(cs) |-> LowerChar(cs[i])]

\* Python's `a in b` on strings
IsSubstring(a, b) ==
    \E i \in 0..Len(b) :
        /\ i + Len(a) <= Len(b)
        /\ SubSeq(b, i + 1, i + Len(a)) = a

\* server_type.lower() in server.name.lower()
NameMatches(server_type, name) ==
    IsSubstring(Lower(Chars(server_type)), Lower(Chars(name)))

ServerNames == {"My Web-Browse", "PubMed"}
ServerIds == 1..MaxServers

HasServer(servers, id) == \E i \in 1..Len(servers) : servers[i].id = id

IndexOf(servers, id) == CHOOSE i \in 1..Len(servers) : servers[i].id = id

\* MCPService.register_server: a new, active server is inserted at the end
\* of the dict.  Of an MCPServer the model keeps id, name and is_active, the
\* fields that registration, activation and dispatch read; server.tools is
\* written by discover_tools and read by get_available_tools only
register_server(servers, id, name) ==
    Append(servers, [id |-> id, name |-> name, is_active |-> TRUE])

\* MCPService.get_active_servers
get_active_servers(servers) == SelectSeq(servers, LAMBDA s : s.is_active)

\* MCPService.remove_server: the registry it leaves
remove_server(servers, id) == SelectSeq(servers, LAMBDA s : s.id # id)

\* MCPService.remove_server: the value it returns
remove_server_returns(servers, id) == HasServer(servers, id)

SetActive(servers, id, flag) ==
    [i \in 1..Len(servers) |->
        IF servers[i].id = id THEN [servers[i] EXCEPT !.is_active = flag]
        ELSE servers[i]]

\* mutant: every server is deactivated
deactivate_server_all(servers, id) ==
    [i \in 1..Len(servers) |-> [servers[i] EXCEPT !.is_active = FALSE]]

\* MCPService.deactivate_server: the registry it leaves
deactivate_server(servers, id) == SetActive(servers, id, FALSE)

\* MCPService.deactivate_server: the value it returns
deactivate_server_returns(servers, id) == HasServer(servers, id)

\* mcp.py activate_server
activate_server(servers, id) == SetActive(servers, id, TRUE)

\* mutant: the last matching server wins
FindTarget_lastMatch(servers, server_type) ==
    LET active == get_active_servers(servers)
        hits == SelectSeq(active, LAMBDA s : NameMatches(server_type, s.name))
    IN  IF hits = <<>> THEN <<>> ELSE <<hits[Len(hits)]>>

\* execute_function_call, lines 246-251: the first active server, in dict
\* order, whose name contains the category; <<>> when there is none
FindTarget(servers, server_type) ==
    LET active == get_active_servers(servers)
        hits == SelectSeq(active, LAMBDA s : NameMatches(server_type, s.name))
    IN  IF hits = <<>> THEN <<>> ELSE <<Head(hits)>>

\* call_tool, lines 104-131: the MCPToolResponse for the outcome of the POST
post_response(post) ==
    IF post = "ok"
    THEN [success |-> TRUE, result |-> "json", error |-> None]
    ELSE [success |-> FALSE, result |-> None, error |-> <<"call failed">>]

\* MCPService.call_tool; post is the outcome of the POST to the server
call_tool(servers, server_id, post) ==
    IF ~HasServer(servers, server_id)
    THEN [success |-> FALSE, result |-> None, error |-> <<"Server not found">>]
    ELSE IF ~servers[IndexOf(servers, server_id)].is_active
    THEN [success |-> FALSE, result |-> None, error |-> <<"Server is not active">>]
    ELSE post_response(post)

\* mutant: call_tool posts to every registered server, active or not
call_tool_posts_anyRegistered(servers, server_id) == HasServer(servers, server_id)

\* whether call_tool reaches its client.post (lines 79-92)
call_tool_posts(servers, server_id) ==
    /\ HasServer(servers, server_id)
    /\ servers[IndexOf(servers, server_id)].is_active

\* mutant: the result reports a success whatever call_tool returned
function_call_result_optimistic(resp, server_name) ==
    [success |-> TRUE, result |-> resp.result, server |-> server_name]

\* execute_function_call, lines 268-281: the result built from the response
\* of call_tool and the server picked
function_call_result(resp, server_name) ==
    IF resp.success
    THEN [success |-> TRUE, result |-> resp.result, server |-> server_name]
    ELSE [success |-> FALSE, error |-> resp.error, server |-> server_name]

\* MCPService.execute_function_call
execute_function_call(servers, fname, post) ==
    LET server_type == FunctionMapGet(fname) IN
    IF server_type = None
    THEN [success |-> FALSE, error |-> <<"Unknown function: ", fname>>]
    ELSE LET target == FindTarget(servers, server_type) IN
         IF target = <<>>
         THEN [success |-> FALSE,
               error |-> <<"No active server found for ", fname>>]
         ELSE function_call_result(call_tool(servers, target[1].id, post),
                                   target[1].name)

\* the ids of the servers execute_function_call sends a call to, in order
execute_function_call_posts(servers, fname) ==
    LET server_type == FunctionMapGet(fname) IN
    IF server_type = None THEN <<>>
    ELSE LET target == FindTarget(servers, server_type) IN
         IF target = <<>> THEN <<>>
         ELSE IF call_tool_posts(servers, target[1].id)
         THEN <<target[1].id>> ELSE <<>>

\* registries as register_server, deactivate_server and activate_server
\* leave them: servers in registration order, each active or not
Registries ==
    UNION {{[i \in 1..n |-> [id |-> i, name |-> names[i],
                             is_active |-> flags[i]]] :
              names \in [1..n -> ServerNames], flags \in [1..n -> BOOLEAN]} :
           n \in 0..MaxRegistry}

\* the id of the server a function call resolves to, 0 when there is none
ResolveServer(servers, fname) ==
    LET server_type == FunctionMapGet(fname) IN
    IF server_type = None THEN 0
    ELSE LET target == FindTarget(servers, server_type) IN
         IF target = <<>> THEN 0 ELSE target[1].id

-----------------------------------------------------------------------------
(* Retrieved documents and the sources returned to the caller *)

Digits == <<"0", "1", "2", "3", "4", "5", "6", "7", "8", "9">>

\* str(n) of a natural number
RECURSIVE Str(_)
Str(n) == IF n < 10 THEN <<Digits[n + 1]>> ELSE Str(n \div 10) \o <<Digits[(n % 10) + 1]>>

PreviewLimit == 200
Marker == <<".", ".", ".">>

DocIds == {"d150", "d200", "d201", "d250"}

ChunkLen(id) ==
    CASE id = "d150" -> 150 [] id = "d200" -> 200
      [] id = "d201" -> 201 [] id = "d250" -> 250

\* a retrieved document as semantic_search builds it; the chunk text is a
\* sequence of characters that differ by position
Doc(id) ==
    [id |-> id, title |-> <<id>>,
     chunk |-> [i \in 1..ChunkLen(id) |-> Digits[(i % 10) + 1]]]

SearchResults == {[i \in DOMAIN ids |-> Doc(ids[i])] : ids \in SeqsUpTo(DocIds, MaxDocs)}

\* mutant: the preview is cut but carries no marker
Preview_noMarker(chunk) ==
    IF Len(chunk) > PreviewLimit THEN SubSeq(chunk, 1, PreviewLimit) ELSE chunk

\* handle_rag_mode.generate, line 122
Preview(chunk) ==
    IF Len(chunk) > PreviewLimit
    THEN SubSeq(chunk, 1, PreviewLimit) \o Marker
    ELSE chunk

\* handle_rag_mode.generate, lines 117-127
StreamSources(docs) ==
    [i \in 1..Len(docs) |->
        [id |-> docs[i].id, title |-> docs[i].title,
         content |-> Preview(docs[i].chunk)]]

\* handle_rag_mode, lines 163-173
ResponseSources(docs) ==
    [i \in 1..Len(docs) |->
        [id |-> docs[i].id, title |-> docs[i].title, content |-> docs[i].chunk]]

-----------------------------------------------------------------------------
(* Context assembly: LLMService.format_rag_context and get_system_prompt *)

\* dict.get(key, default)
Get(d, key, default) == IF key \in DOMAIN d THEN d[key] ELSE default

Sentinel == <<"No relevant documents found.">>
Separator == <<"\n---\n">>

\* str.join
RECURSIVE Join(_, _)
Join(sep, parts) ==
    IF parts = <<>> THEN <<>>
    ELSE IF Len(parts) = 1 THEN parts[1]
    ELSE parts[1] \o sep \o Join(sep, Tail(parts))

\* one `Label: value\n` line of a block, written when the value is truthy
Line(label, value) ==
    IF value # <<>> THEN <<label>> \o value \o <<"\n">> ELSE <<>>

\* format_rag_context, lines 229-249: the block of the i-th document
context_part(i, doc) ==
    LET title == Get(doc, "title", <<"Unknown">>)
        content == Get(doc, "chunk", Get(doc, "content", <<>>))
        metadata == Get(doc, "metadata", <<>>)
        uses == Get(metadata, "uses", <<>>)
        side_effects == Get(metadata, "side_effects", <<>>)
        substitutes == Get(metadata, "substitutes", <<>>)
    IN  <<"Document ">> \o Str(i) \o <<": ">> \o title \o <<"\n">>
        \o Line("Content: ", content)
        \o Line("Uses: ", uses)
        \o Line("Side Effects: ", side_effects)
        \o Line("Substitutes: ", substitutes)

\* mutant: no sentinel for an empty document sequence
format_rag_context_noSentinel(documents) ==
    Join(Separator, [i \in 1..Len(documents) |-> context_part(i, documents[i])])

\* mutant: the blocks are numbered from 0
format_rag_context_zeroBased(documents) ==
    IF documents = <<>> THEN Sentinel
    ELSE Join(Separator,
              [i \in 1..Len(documents) |-> context_part(i - 1, documents[i])])

\* LLMService.format_rag_context
format_rag_context(documents) ==
    IF documents = <<>> THEN Sentinel
    ELSE Join(Separator,
              [i \in 1..Len(documents) |-> context_part(i, documents[i])])

\* LLMService.get_system_prompt
get_system_prompt(m, ctx) ==
    CASE m = "ask" -> <<"You are MedQuery, a helpful AI assistant", "disclaimer">>
      [] m = "rag" ->
            <<"You are MedQuery, a medical knowledge assistant", "CONTEXT:">>
            \o (IF ctx # <<>> THEN ctx
                ELSE <<"No relevant context found.">>)
            \o <<"INSTRUCTIONS", "disclaimer">>
      [] m = "agent" -> <<"You are MedQuery, an AI agent", "disclaimer">>
      [] OTHER -> <<"You are MedQuery, a medical AI assistant.", "disclaimer">>

\* documents format_rag_context is applied to: with and without a title, with
\* the text under `chunk` or under `content`, with and without metadata
FormatDocs ==
    {[title |-> <<"T1">>, chunk |-> <<"c1">>, metadata |-> [uses |-> <<"u">>]],
     [chunk |-> <<>>, content |-> <<"x">>],
     [title |-> <<"T3">>, content |-> <<"x">>],
     [title |-> <<>>, chunk |-> <<>>, content |-> <<>>,
      metadata |-> [uses |-> <<>>, side_effects |-> <<"s">>,
                    substitutes |-> <<"b">>]]}

FormatInputs == SeqsUpTo(FormatDocs, MaxFormatDocs)

-----------------------------------------------------------------------------
(* Tool calls requested by the generation client *)

ArgsP == "{\"query\": \"p\"}"
ArgsQ == "{\"query\": \"q\"}"
ArgsBad == "{\"query\": "
RawArgs == {ArgsP, ArgsQ, ArgsBad}

\* json.loads raises JSONDecodeError on a text that is no JSON document
JsonValid(raw) == raw \in {ArgsP, ArgsQ}

\* json.loads on a valid document
json_loads(raw) ==
    CASE raw = ArgsP -> [query |-> "p"]
      [] raw = ArgsQ -> [query |-> "q"]

ToolCall(n, a) == [function |-> [name |-> n, arguments |-> a]]

\* a call of a mapped function, a call of a function that is not in
\* function_map, and a call whose arguments are no JSON document
ToolCalls ==
    {ToolCall("web_search", ArgsP), ToolCall("get_weather", ArgsQ),
     ToolCall("web_search", ArgsBad)}

Batches == {b \in SeqsUpTo(ToolCalls, MaxBatch) : b # <<>>}

\* one chunk of the completion stream: choice.delta content and tool_calls
\* (a delta may carry neither, either, or both)
AgentChunks ==
    {[content |-> c, tool_calls |-> <<>>] : c \in {<<>>} \cup {<<f>> : f \in Frags}}
    \cup {[content |-> <<>>, tool_calls |-> b] : b \in Batches}
    \cup {[content |-> <<"a">>, tool_calls |-> <<ToolCall("web_search", ArgsP)>>]}

\* the chunk of the client that asks for another tool call every round
LoopChunk ==
    [content |-> <<>>,
     tool_calls |-> <<ToolCall("web_search", ArgsP)>>]

\* mutant: every entry is recorded as a success
ToolEntry_successAlways(name, parsed, result) ==
    [action |-> name, parameters |-> parsed, result |-> result,
     success |-> TRUE]

\* handle_agent_mode, lines 220-227 and 279-284: the entry of an invocation
\* whose execute_function_call returned
ToolEntry(name, parsed, result) ==
    [action |-> name, parameters |-> parsed, result |-> result,
     success |-> result.success]

\* handle_agent_mode, one iteration of `for tool_call in chunk["data"]`:
\* the locals after it, the entry appended, and whether the except clause
\* itself raised (UnboundLocalError on a local never assigned)
ToolCallBody(tool_call, fn, args, servers, post) ==
    LET name == tool_call.function.name
        raw == tool_call.function.arguments
    IN  IF JsonValid(raw)
        THEN LET parsed == json_loads(raw)
                 result == execute_function_call(servers, name, post)
             IN  [function_name |-> name, arguments |-> parsed, raised |-> FALSE,
                  entry |-> ToolEntry(name, parsed, result)]
        ELSE IF args = Unbound
        THEN [function_name |-> name, arguments |-> args, raised |-> TRUE,
              entry |-> Unbound]
        ELSE [function_name |-> name, arguments |-> args, raised |-> FALSE,
              entry |-> [action |-> name, parameters |-> args,
                         error |-> "JSONDecodeError", success |-> FALSE]]

\* handle_agent_mode.generate, lines 210-240
StreamToolCall(tool_call, fn, args, servers, post) ==
    ToolCallBody(tool_call, fn, args, servers, post)

\* handle_agent_mode, lines 270-292
NonStreamToolCall(tool_call, fn, args, servers, post) ==
    ToolCallBody(tool_call, fn, args, servers, post)

\* mutant: the action update is held back instead of being written
ActionEvents_deferred(entry) == <<>>

\* handle_agent_mode.generate, lines 229 and 239: the action update written
\* right after the entry is appended to the trace
ActionEvents(entry) == <<[action |-> entry]>>

-----------------------------------------------------------------------------
(* What chat() returns or raises *)

Pending == [status |-> 0]
StreamingResponse == [status |-> 200, body |-> "stream"]

ChatResponse(text, m, sources, tool_calls) ==
    [status |-> 200, body |-> "json", response |-> text, mode |-> m,
     sources |-> sources, tool_calls |-> tool_calls]

\* An HTTPException whose detail is f"{text}{arg}": its status code, the
\* fixed text of the detail and the value formatted into it

\* chat, lines 46-50: the branch for a mode that is none of the three
UnsupportedMode(m) ==
    [status |-> 400, detail |-> [text |-> "Unsupported chat mode: ", arg |-> m]]

\* handle_agent_mode, lines 300-305: detail f"Agent error: {str(e)}"
AgentExcept(e) ==
    [status |-> 500, detail |-> [text |-> "Agent error: ", arg |-> e]]

\* chat, lines 52-57: detail f"Chat error: {str(e)}"; `except Exception`
\* also catches an HTTPException raised in the try block
ChatExcept(e) ==
    [status |-> 500, detail |-> [text |-> "Chat error: ", arg |-> e]]

\* the body of POST /api/chat is validated against ChatRequest before chat()
\* is called (chat.py:25-26): a field that fails gives 422 with its location
RequestValidationError(field) ==
    [status |-> 422, detail |-> [loc |-> <<"body", field>>]]

\* mutant: mode is declared `str`, so every request reaches chat(), whose
\* else branch raises inside the try block
ModeError_unvalidated(m) == ChatExcept(UnsupportedMode(m))

\* ChatRequest.mode is a ChatMode (models/chat.py:6-9, 20): the outcome of
\* a request whose mode is not a member of the enum
ModeError(m) == RequestValidationError("mode")

\* the registry the chat module dispatches against (chat.py:21)
DispatchRegistry == chatServers

\* ChatMessage (models/chat.py:12-15)
ChatMessage(role, content, timestamp) ==
    [role |-> role, content |-> content, timestamp |-> timestamp]

\* mutant: the current message is appended twice
all_messages_twice(history, msg) ==
    history \o <<ChatMessage("user", msg, None), ChatMessage("user", msg, None)>>

\* chat, lines 31-38
all_messages(history, msg) ==
    history \o <<ChatMessage("user", msg, None)>>

\* generate_response, lines 84-96, and generate_response_with_tools, lines
\* 157-169: the system prompt, then role and content of every message
build_api_messages(msgs, m, ctx) ==
    <<[role |-> "system", content |-> get_system_prompt(m, ctx)]>>
    \o [i \in 1..Len(msgs) |->
            [role |-> msgs[i].role, content |-> msgs[i].content]]

\* earlier messages of a conversation; one has the text of the current message
HistoryMessages ==
    {ChatMessage("user", <<"q">>, "t1"), ChatMessage("assistant", <<"r">>, None),
     ChatMessage("user", <<"p">>, None)}

Histories == SeqsUpTo(HistoryMessages, MaxHistory)

Messages == {<<"q">>, <<"z">>}

\* request.message of the request the handlers serve: empty or not
RequestMessages == {<<>>, <<"q">>}

-----------------------------------------------------------------------------
(* Two requests served concurrently: each handler call has its own frame *)

Requests == {1, 2}

\* the inputs of the two requests differ, so that whatever one request
\* receives can be told from what the other receives
OwnFrag(r) == IF r = 1 THEN "a" ELSE "b"
OwnArgs(r) == IF r = 1 THEN ArgsP ELSE ArgsQ
OwnDoc(r) == IF r = 1 THEN "d150" ELSE "d250"
OwnMessage(r) == IF r = 1 THEN <<"q1">> ELSE <<"q2">>
OwnHistory(r) ==
    <<[role |-> "user", content |-> IF r = 1 THEN <<"h1">> ELSE <<"h2">>]>>

\* the frame of a handler before the request has arrived
IdleTask ==
    [pc |-> "idle", mode |-> None, stream |-> FALSE, messages |-> <<>>,
     search_results |-> <<>>, consumed |-> <<>>, batch |-> <<>>,
     function_name |-> None, arguments |-> Unbound, response_text |-> <<>>,
     action_trace |-> <<>>, events |-> <<>>, outcome |-> Pending]

\* mutant: the handlers' variables are module-level, one set for all requests
BindLocals_global(ts, r, frame) == [q \in DOMAIN ts |-> frame]

\* assignments in a handler bind the locals of that call only
BindLocals(ts, r, frame) == [ts EXCEPT ![r] = frame]

-----------------------------------------------------------------------------
(* Initial state: both registries empty, no request received yet *)

\* everything but the request, the handler's position, the registry of the
\* chat module and the retrieved documents
RestInit ==
    /\ regChanged = FALSE
    /\ client = None
    /\ stream = FALSE
    /\ called = {}
    /\ failed = {}
    /\ context = <<>>
    /\ consumed = <<>>
    /\ batch = <<>>
    /\ function_name = None
    /\ arguments = Unbound
    /\ response_text = <<>>
    /\ action_trace = <<>>
    /\ snapshot = <<>>
    /\ resolved = <<>>
    /\ events = <<>>
    /\ outcome = Pending
    /\ tasks = [r \in Requests |-> IdleTask]
    /\ mcp_tool_call = NoToolCall
    /\ target_server = <<>>
    /\ posted = <<>>
    /\ response = NoResponse

Init ==
    /\ RestInit
    /\ apiServers = <<>>
    /\ nextId = 0
    /\ mode = None
    /\ conversation_history = <<>>
    /\ message \in RequestMessages
    /\ messages = <<>>
    /\ api_messages = <<>>
    /\ chatServers = <<>>
    /\ search_results = <<>>
    /\ pc = "idle"

\* a handler of the request exists: it has been called and has neither
\* returned, nor ended its stream, nor been unwound by a cancellation
InProgress == pc \notin {"idle", "closed", "cancelled"}

-----------------------------------------------------------------------------
(* Registry endpoints of mcp.py; they act on the registry module's service *)

RegistryFrame(servers) ==
    /\ regChanged' = (regChanged \/ (InProgress /\ servers # apiServers))
    /\ UNCHANGED <<chatServers, reqVars, tasks, msgVars, callVars>>

\* mcp.py register_server, line 23: the server is in the registry, active,
\* from the call of MCPService.register_server on (the discovery of its tools
\* that follows changes server.tools only)
RegisterServer(name) ==
    /\ nextId < MaxServers
    /\ nextId' = nextId + 1
    /\ apiServers' = register_server(apiServers, nextId + 1, name)
    /\ RegistryFrame(apiServers')

\* mcp.py remove_server
RemoveServer(id) ==
    /\ apiServers' = remove_server(apiServers, id)
    /\ RegistryFrame(apiServers')
    /\ UNCHANGED nextId

\* mcp.py deactivate_server
DeactivateServer(id) ==
    /\ apiServers' = deactivate_server(apiServers, id)
    /\ RegistryFrame(apiServers')
    /\ UNCHANGED nextId

\* mcp.py activate_server
ActivateServer(id) ==
    /\ apiServers' = activate_server(apiServers, id)
    /\ RegistryFrame(apiServers')
    /\ UNCHANGED nextId

-----------------------------------------------------------------------------
(* The generation client *)

RaiseItem == [raise |-> TRUE]
EndItem == [end |-> TRUE]

IsChunk(item) == "content" \in DOMAIN item
IsFinal(item) == ~IsChunk(item)

ChunksConsumed == Cardinality({i \in 1..Len(consumed) : IsChunk(consumed[i])})

HasToolCalls(item) ==
    /\ "tool_calls" \in DOMAIN item
    /\ item.tool_calls # <<>>

ToolRounds == Cardinality({i \in 1..Len(consumed) : HasToolCalls(consumed[i])})

\* what the completion stream of generate_response can produce next: a delta
\* with or without content, an exception, or its end
TextItems ==
    (IF ChunksConsumed < MaxChunks
     THEN {[content |-> c] : c \in {<<>>} \cup {<<f>> : f \in Frags}}
     ELSE {}) \cup {RaiseItem, EndItem}

\* what the completion stream of generate_response_with_tools can produce next
AgentItems ==
    IF client = "tool_loop"
    THEN (IF ToolRounds < MaxLoopRounds THEN {LoopChunk} ELSE {EndItem})
    ELSE (IF ChunksConsumed < MaxChunks THEN AgentChunks ELSE {})
         \cup {RaiseItem, EndItem}

\* LLMService.generate_response, stream=True: the chunks it yields for one
\* item of the completion stream (lines 122-124, 145-147)
StreamYield(item) ==
    IF IsChunk(item) THEN (IF item.content # <<>> THEN <<item.content>> ELSE <<>>)
    ELSE IF item = RaiseItem THEN <<ErrText>>
    ELSE <<>>

\* LLMService.generate_response, stream=False: the chunks it yields when the
\* completion is text, or when the call raises (lines 126-147)
NonStreamYield(text, ok) == IF ok THEN <<text>> ELSE <<ErrText>>

\* LLMService.generate_response_with_tools: the chunks it yields for one item
\* of the completion stream (lines 198-221)
ToolsYield(item) ==
    IF IsChunk(item)
    THEN (IF item.content # <<>>
          THEN <<[type |-> "content", data |-> item.content]>> ELSE <<>>)
         \o (IF item.tool_calls # <<>>
             THEN <<[type |-> "tool_calls", data |-> item.tool_calls]>> ELSE <<>>)
    ELSE IF item = RaiseItem THEN <<[type |-> "error", data |-> ErrText]>>
    ELSE <<>>

ContentEvents(chunks) == [i \in 1..Len(chunks) |-> [content |-> chunks[i]]]

-----------------------------------------------------------------------------
(* chat() and the three handlers *)

\* a step of the request leaves the registries and the other requests alone
RegistryUnchanged ==
    UNCHANGED <<chatServers, apiServers, nextId, regChanged, tasks, msgVars,
                callVars>>

\* mutant: the final trace event is not written
AgentStreamEvents_noDone(yielded, trace, final) ==
    LET shown == SelectSeq(yielded, LAMBDA ch : ch.type \in {"content", "error"})
    IN  [i \in 1..Len(shown) |->
            IF shown[i].type = "content" THEN [content |-> shown[i].data]
            ELSE [error |-> shown[i].data]]

\* mutant: the final event carries an empty trace
AgentStreamEvents_emptyTrace(yielded, trace, final) ==
    LET shown == SelectSeq(yielded, LAMBDA ch : ch.type \in {"content", "error"})
    IN  [i \in 1..Len(shown) |->
            IF shown[i].type = "content" THEN [content |-> shown[i].data]
            ELSE [error |-> shown[i].data]]
        \o (IF final THEN <<[tool_calls |-> <<>>, done |-> TRUE]>> ELSE <<>>)

\* handle_agent_mode.generate, lines 205-206 and 242-246: the events written
\* for the content and error chunks of one item, and the final trace once the
\* completion stream is over
AgentStreamEvents(yielded, trace, final) ==
    LET shown == SelectSeq(yielded, LAMBDA ch : ch.type \in {"content", "error"})
    IN  [i \in 1..Len(shown) |->
            IF shown[i].type = "content" THEN [content |-> shown[i].data]
            ELSE [error |-> shown[i].data]]
        \o (IF final THEN <<[tool_calls |-> trace, done |-> TRUE]>> ELSE <<>>)

\* POST /api/chat with a mode outside ChatMode: the request is rejected when
\* its body is validated, chat() is not called
RejectRequest(m) ==
    /\ pc = "idle"
    /\ m \notin ChatMode
    /\ mode' = m
    /\ outcome' = ModeError(m)
    /\ pc' = "closed"
    /\ RegistryUnchanged
    /\ UNCHANGED <<client, stream, context, called, failed, search_results,
                   consumed, batch, function_name, arguments, response_text,
                   action_trace, resolved, events, snapshot>>

\* chat, lines 24-57: the current message is appended to the history
\* (lines 31-38) and the handler of request.mode is called with the result.
\* request.mode is a ChatMode, so the else branch of lines 46-50 is not taken
Chat(m, s, c) ==
    /\ pc = "idle"
    /\ mode' = m
    /\ stream' = s
    /\ client' = c
    /\ messages' = all_messages(conversation_history, message)
    /\ m \in ChatMode
    /\ pc' = CASE m = "ask" -> "gen"
               [] m = "rag" -> "embed"
               [] m = "agent" -> "call"
    /\ outcome' = CASE m \in {"ask", "agent"} ->
                        (IF s THEN StreamingResponse ELSE Pending)
                    [] m = "rag" -> Pending
    /\ snapshot' = get_active_servers(DispatchRegistry)
    /\ UNCHANGED <<chatServers, apiServers, nextId, regChanged, tasks, callVars,
                   conversation_history, message, api_messages>>
    /\ UNCHANGED <<called, failed, search_results, context, consumed, batch,
                   function_name, arguments, response_text, action_trace,
                   resolved, events>>

\* handle_rag_mode, line 102: get_embedding returns a zero vector for an
\* empty text without calling the embeddings client (embedding_service.py,
\* `if not text`), and a zero vector when the client raises
RagEmbed(ok) ==
    /\ pc = "embed"
    /\ called' = IF message = <<>> THEN called ELSE called \cup {"embedding"}
    /\ failed' = IF message = <<>> \/ ok THEN failed
                 ELSE failed \cup {"embedding"}
    /\ pc' = "search"
    /\ RegistryUnchanged
    /\ UNCHANGED <<client, mode, stream, context, search_results, consumed, batch,
                   function_name, arguments, response_text, action_trace,
                   resolved, events, outcome, snapshot>>

\* handle_rag_mode, lines 105-113: semantic_search returns [] on failure
RagSearch(ok, docs) ==
    /\ pc = "search"
    /\ called' = called \cup {"retrieval"}
    /\ failed' = IF ok THEN failed ELSE failed \cup {"retrieval"}
    /\ search_results' = IF ok THEN docs ELSE <<>>
    /\ pc' = IF stream THEN "sources" ELSE "gen"
    /\ outcome' = IF stream THEN StreamingResponse ELSE outcome
    /\ RegistryUnchanged
    /\ context' = format_rag_context(search_results')
    /\ UNCHANGED <<client, mode, stream, consumed, batch, function_name,
                   arguments, response_text, action_trace, resolved, events, snapshot>>

\* mutant: the generator goes straight to the completion stream
RagSources_skipped ==
    /\ pc = "sources"
    /\ pc' = "gen"
    /\ RegistryUnchanged
    /\ UNCHANGED <<client, mode, stream, context, called, failed, search_results,
                   consumed, batch, function_name, arguments, response_text,
                   action_trace, resolved, outcome, snapshot, events>>

\* handle_rag_mode.generate, lines 116-129
RagSources ==
    /\ pc = "sources"
    /\ events' = Append(events, [sources |-> StreamSources(search_results)])
    /\ pc' = "gen"
    /\ RegistryUnchanged
    /\ UNCHANGED <<client, mode, stream, context, called, failed, search_results,
                   consumed, batch, function_name, arguments, response_text,
                   action_trace, resolved, outcome, snapshot>>

\* generate_response_with_tools, lines 157-196: api_messages is built from
\* `messages` and the completion request is sent; the handler is suspended
\* at `await ...acreate` until the client answers
GenCall ==
    /\ pc = "call"
    /\ api_messages' = build_api_messages(messages, "agent", <<>>)
    /\ called' = called \cup {"generation"}
    /\ pc' = "gen"
    /\ UNCHANGED <<chatServers, apiServers, nextId, regChanged, tasks, callVars,
                   conversation_history, message, messages>>
    /\ UNCHANGED <<client, mode, stream, context, failed, search_results,
                   consumed, batch, function_name, arguments, response_text,
                   action_trace, resolved, outcome, snapshot, events>>

\* generate_response, lines 84-120: the completion client is called
\* synchronously, within the step that takes the first item of its stream
SentMessages ==
    IF consumed = <<>> THEN build_api_messages(messages, mode, context)
    ELSE api_messages

\* handle_ask_mode.generate, lines 63-74, and handle_rag_mode.generate,
\* lines 131-143: one item of the completion stream.  The generator is
\* suspended at each yield, so the text that generate_response yields when
\* the client raises is written in this step and the final event in the next
GenStream(item) ==
    /\ pc = "gen"
    /\ mode \in {"ask", "rag"}
    /\ stream
    /\ item \in TextItems
    /\ consumed' = Append(consumed, item)
    /\ called' = called \cup {"generation"}
    /\ api_messages' = SentMessages
    /\ failed' = IF item = RaiseItem THEN failed \cup {"generation"} ELSE failed
    /\ events' = events \o ContentEvents(StreamYield(item))
                        \o (IF item = EndItem THEN <<[done |-> TRUE]>> ELSE <<>>)
    /\ pc' = IF item = EndItem THEN "closed"
             ELSE IF item = RaiseItem THEN "done" ELSE "gen"
    /\ UNCHANGED <<chatServers, apiServers, nextId, regChanged, tasks, callVars,
                   conversation_history, message, messages>>
    /\ UNCHANGED <<client, mode, stream, context, search_results, batch, function_name,
                   arguments, response_text, action_trace, resolved, outcome, snapshot>>

\* the final event of a stream whose completion stream was ended by an
\* exception of the client: chat.py:72 and 141 (after the error text),
\* chat.py:246 (after the error event)
GenDone ==
    /\ pc = "done"
    /\ events' = events \o
                    (IF mode = "agent"
                     THEN AgentStreamEvents(<<>>, action_trace, TRUE)
                     ELSE <<[done |-> TRUE]>>)
    /\ pc' = "closed"
    /\ RegistryUnchanged
    /\ UNCHANGED <<client, mode, stream, context, called, failed, search_results,
                   consumed, batch, function_name, arguments, response_text,
                   action_trace, resolved, outcome, snapshot>>

\* handle_ask_mode, lines 82-95, and handle_rag_mode, lines 151-179
GenNonStream(frags, ok) ==
    /\ pc = "gen"
    /\ mode \in {"ask", "rag"}
    /\ ~stream
    /\ consumed' = [i \in 1..Len(frags) |-> [content |-> <<frags[i]>>]]
                      \o <<IF ok THEN EndItem ELSE RaiseItem>>
    /\ called' = called \cup {"generation"}
    /\ api_messages' = SentMessages
    /\ failed' = IF ok THEN failed ELSE failed \cup {"generation"}
    /\ response_text' = response_text \o Concat(NonStreamYield(frags, ok))
    /\ outcome' = ChatResponse(response_text', mode,
                               IF mode = "rag"
                               THEN ResponseSources(search_results) ELSE None,
                               None)
    /\ pc' = "closed"
    /\ UNCHANGED <<chatServers, apiServers, nextId, regChanged, tasks, callVars,
                   conversation_history, message, messages>>
    /\ UNCHANGED <<client, mode, stream, context, search_results, batch, function_name,
                   arguments, action_trace, resolved, events, snapshot>>

\* handle_agent_mode, lines 266-267: only content chunks add to response_text
AgentResponseText(text, yielded) ==
    LET shown == SelectSeq(yielded, LAMBDA ch : ch.type = "content")
    IN  text \o Concat([i \in 1..Len(shown) |-> shown[i].data])

StreamedContent(evs) ==
    LET shown == SelectSeq(evs, LAMBDA e : "content" \in DOMAIN e)
    IN  Concat([i \in 1..Len(shown) |-> shown[i].content])

\* the tool-call loop of handle_agent_mode run over a whole batch, streaming
\* (s) or not; st holds the handler's locals, k counts the calls dispatched
RECURSIVE FoldCalls(_, _, _)
FoldCalls(calls, st, s) ==
    IF calls = <<>> \/ st.raised THEN st
    ELSE LET tool_call == Head(calls)
             valid == JsonValid(tool_call.function.arguments)
             post == IF valid /\ st.k + 1 <= Len(resolved)
                     THEN resolved[st.k + 1].post ELSE None
             r == IF s
                  THEN StreamToolCall(tool_call, st.fn, st.args,
                                      DispatchRegistry, post)
                  ELSE NonStreamToolCall(tool_call, st.fn, st.args,
                                         DispatchRegistry, post)
             next == IF r.raised
                     THEN [st EXCEPT !.raised = TRUE, !.fn = r.function_name]
                     ELSE [st EXCEPT !.trace = Append(@, r.entry),
                                     !.fn = r.function_name,
                                     !.args = r.arguments,
                                     !.k = IF valid THEN @ + 1 ELSE @]
         IN  FoldCalls(Tail(calls), next, s)

\* handle_agent_mode run over a whole completion stream, streaming (s) or
\* not: the aggregate content, the trace, and whether the handler raised
RECURSIVE FoldItems(_, _, _)
FoldItems(items, st, s) ==
    IF items = <<>> \/ st.raised THEN st
    ELSE LET yielded == ToolsYield(Head(items))
             tools == SelectSeq(yielded, LAMBDA ch : ch.type = "tool_calls")
             text == IF s
                     THEN st.text \o
                          StreamedContent(AgentStreamEvents(yielded, st.trace, FALSE))
                     ELSE AgentResponseText(st.text, yielded)
             st1 == [st EXCEPT !.text = text]
             st2 == IF tools # <<>> THEN FoldCalls(tools[1].data, st1, s) ELSE st1
         IN  FoldItems(Tail(items), st2, s)

AgentRun(items, s) ==
    FoldItems(items,
              [text |-> <<>>, trace |-> <<>>, fn |-> None, args |-> Unbound,
               raised |-> FALSE, k |-> 0], s)

\* the aggregate content of handle_ask_mode / handle_rag_mode run over a
\* whole completion stream, streaming (lines 65-71) or not (lines 83-90)
TextRun(items, s) ==
    IF s
    THEN Concat([i \in 1..Len(items) |-> Concat(StreamYield(items[i]))])
    ELSE LET chunks == SelectSeq(items, IsChunk)
         IN  Concat(NonStreamYield(
                        Concat([i \in 1..Len(chunks) |-> chunks[i].content]),
                        RaiseItem \notin {items[i] : i \in 1..Len(items)}))

\* handle_agent_mode, lines 200-208, 242-246 (streaming) and 261-268, 294-298
\* (non-streaming): one item of the completion stream.  The error event of
\* a streamed request is written in this step, the final event in the next
AgentGen(item) ==
    /\ pc = "gen"
    /\ mode = "agent"
    /\ item \in AgentItems
    /\ LET yielded == ToolsYield(item)
           tools == SelectSeq(yielded, LAMBDA ch : ch.type = "tool_calls")
       IN  /\ batch' = IF tools # <<>> THEN tools[1].data ELSE <<>>
           /\ pc' = IF item = EndItem THEN "closed"
                    ELSE IF item = RaiseItem
                    THEN (IF stream THEN "done" ELSE "closed")
                    ELSE IF tools # <<>> THEN "tools" ELSE "gen"
           /\ IF stream
              THEN /\ events' = events \o
                        AgentStreamEvents(yielded, action_trace, item = EndItem)
                   /\ UNCHANGED <<response_text, outcome>>
              ELSE /\ response_text' = AgentResponseText(response_text, yielded)
                   /\ outcome' = IF IsFinal(item)
                                 THEN ChatResponse(response_text', "agent", None,
                                                   action_trace)
                                 ELSE outcome
                   /\ UNCHANGED events
    /\ consumed' = Append(consumed, item)
    /\ failed' = IF item = RaiseItem THEN failed \cup {"generation"} ELSE failed
    /\ RegistryUnchanged
    /\ UNCHANGED <<client, mode, stream, context, search_results, function_name,
                   arguments, action_trace, resolved, snapshot, called>>

\* handle_agent_mode, lines 210-240 (streaming) and 270-292 (non-streaming):
\* the loop body for the next tool call of the batch.  When
\* execute_function_call finds a server, the handler is suspended at the
\* POST of call_tool (mcp_service.py:106) with function_name and arguments
\* bound and no entry yet (pc = "post"); the step at pc = "post" is the rest
\* of the loop body, post being the outcome of the POST
AgentTool(post) ==
    /\ pc \in {"tools", "post"}
    /\ IF pc = "tools"
       THEN LET tool_call == Head(batch)
                name == tool_call.function.name
                valid == JsonValid(tool_call.function.arguments)
                awaits == /\ valid
                          /\ execute_function_call_posts(DispatchRegistry, name) # <<>>
                r == IF stream
                     THEN StreamToolCall(tool_call, function_name, arguments,
                                         DispatchRegistry, None)
                     ELSE NonStreamToolCall(tool_call, function_name, arguments,
                                            DispatchRegistry, None)
            IN  /\ function_name' = r.function_name
                /\ arguments' = r.arguments
                /\ resolved' =
                      IF valid
                      THEN Append(resolved,
                                  [fname |-> name,
                                   server |-> ResolveServer(DispatchRegistry, name),
                                   post |-> None,
                                   afterChange |-> regChanged])
                      ELSE resolved
                /\ UNCHANGED failed
                /\ IF awaits
                   THEN /\ target_server' =
                              FindTarget(DispatchRegistry, FunctionMapGet(name))
                        /\ called' = called \cup {"toolserver"}
                        /\ pc' = "post"
                        /\ UNCHANGED <<batch, action_trace, events, outcome>>
                   ELSE /\ UNCHANGED <<target_server, called>>
                        /\ IF r.raised
                           THEN /\ pc' = "closed"
                                /\ UNCHANGED <<batch, action_trace>>
                                /\ IF stream
                                   THEN /\ events' = Append(events,
                                              [error |-> "UnboundLocalError"])
                                        /\ UNCHANGED outcome
                                   ELSE /\ outcome' = ChatExcept(
                                              AgentExcept("UnboundLocalError"))
                                        /\ UNCHANGED events
                           ELSE /\ action_trace' = Append(action_trace, r.entry)
                                /\ batch' = Tail(batch)
                                /\ pc' = IF Tail(batch) = <<>> THEN "gen" ELSE "tools"
                                /\ events' = IF stream
                                             THEN events \o ActionEvents(r.entry)
                                             ELSE events
                                /\ UNCHANGED outcome
       ELSE LET result == function_call_result(post_response(post),
                                               target_server[1].name)
                entry == ToolEntry(function_name, arguments, result)
            IN  /\ action_trace' = Append(action_trace, entry)
                /\ batch' = Tail(batch)
                /\ pc' = IF Tail(batch) = <<>> THEN "gen" ELSE "tools"
                /\ events' = IF stream THEN events \o ActionEvents(entry)
                             ELSE events
                /\ failed' = IF post = "ok" THEN failed
                             ELSE failed \cup {"toolserver"}
                /\ resolved' = [resolved EXCEPT ![Len(resolved)].post = post]
                /\ target_server' = <<>>
                /\ UNCHANGED <<function_name, arguments, called, outcome>>
    /\ UNCHANGED <<chatServers, apiServers, nextId, regChanged, tasks, msgVars,
                   mcp_tool_call, posted, response>>
    /\ UNCHANGED <<client, mode, stream, context, search_results, consumed,
                   response_text, snapshot>>

-----------------------------------------------------------------------------
(* Specifications *)

Clients == {"free", "tool_loop"}

ChatNext ==
    \/ RejectRequest(OtherMode)
    \/ \E m \in ChatMode, s \in BOOLEAN, c \in Clients :
          /\ (c = "tool_loop" => m = "agent")
          /\ Chat(m, s, c)
    \/ \E ok \in BOOLEAN : RagEmbed(ok)
    \/ \E ok \in BOOLEAN, docs \in SearchResults : RagSearch(ok, docs)
    \/ RagSources
    \/ GenCall
    \/ \E item \in TextItems : GenStream(item)
    \/ GenDone
    \/ \E frags \in SeqsUpTo(Frags, MaxChunks), ok \in BOOLEAN :
          GenNonStream(frags, ok)
    \/ \E item \in AgentItems : AgentGen(item)
    \/ \E post \in {"ok", "fail"} : AgentTool(post)

RegistryNext ==
    \/ \E name \in ServerNames : RegisterServer(name)
    \/ \E id \in ServerIds : RemoveServer(id)
    \/ \E id \in ServerIds : DeactivateServer(id)
    \/ \E id \in ServerIds : ActivateServer(id)

Next == ChatNext \/ RegistryNext

-----------------------------------------------------------------------------
(* Cancellation of a streamed request *)

\* what is raised in a generator whose task is cancelled (at an await) or
\* that is closed while suspended (at a yield)
Cancellations == {"CancelledError", "GeneratorExit"}

\* mutant: the cancellation is an Exception, so `except Exception` catches it
ExceptEvents_catchAll(exc) == <<[error |-> exc]>>

\* the events written by the `except Exception as e` clauses of the
\* generators (chat.py:73-74, 142-143, 248-249) for what is raised in them:
\* CancelledError and GeneratorExit derive from BaseException
ExceptEvents(exc) ==
    IF exc \in Cancellations THEN <<>> ELSE <<[error |-> exc]>>

\* the caller disconnects, or the task serving the stream is cancelled
Disconnect ==
    /\ stream
    /\ pc \notin {"idle", "closed", "cancelling", "cancelled"}
    /\ pc' = "cancelling"
    /\ RegistryUnchanged
    /\ UNCHANGED <<client, mode, stream, context, called, failed, search_results,
                   consumed, batch, function_name, arguments, response_text,
                   action_trace, resolved, outcome, snapshot, events>>

\* the cancellation is raised where the handler is suspended and unwinds it
Unwind(exc) ==
    /\ pc = "cancelling"
    /\ events' = events \o ExceptEvents(exc)
    /\ pc' = "cancelled"
    /\ RegistryUnchanged
    /\ UNCHANGED <<client, mode, stream, context, called, failed, search_results,
                   consumed, batch, function_name, arguments, response_text,
                   action_trace, resolved, outcome, snapshot>>

CancelNext ==
    \/ Disconnect
    \/ \E exc \in Cancellations : Unwind(exc)

CancelSpec == Init /\ [][Next \/ CancelNext]_vars

-----------------------------------------------------------------------------
(* The handlers of two concurrent requests, interleaved at their awaits *)

MainVars ==
    <<chatServers, apiServers, nextId, regChanged, reqVars, msgVars, callVars>>

PairChunks(r) ==
    Cardinality({i \in 1..Len(tasks[r].consumed) : IsChunk(tasks[r].consumed[i])})

PairTextItems(r) ==
    (IF PairChunks(r) < MaxPairChunks THEN {[content |-> <<OwnFrag(r)>>]} ELSE {})
    \cup {RaiseItem, EndItem}

PairAgentItems(r) ==
    (IF PairChunks(r) < MaxPairChunks
     THEN {[content |-> <<OwnFrag(r)>>, tool_calls |-> <<>>],
           [content |-> <<>>,
            tool_calls |-> <<ToolCall("web_search", OwnArgs(r))>>]}
     ELSE {}) \cup {RaiseItem, EndItem}

\* chat, lines 24-57
PairChat(r, m, s) ==
    /\ tasks[r].pc = "idle"
    /\ tasks' = BindLocals(tasks, r,
          [tasks[r] EXCEPT
              !.mode = m, !.stream = s,
              !.messages = all_messages(OwnHistory(r), OwnMessage(r)),
              !.pc = CASE m = "rag" -> "search"
                       [] m = "agent" -> "call"
                       [] OTHER -> "gen",
              !.outcome = IF s /\ m # "rag" THEN StreamingResponse ELSE Pending])
    /\ UNCHANGED MainVars

\* handle_rag_mode, lines 100-113: the embedding (its client is called
\* synchronously) and the retrieval
PairRagSearch(r, ok) ==
    /\ tasks[r].pc = "search"
    /\ LET t == tasks[r]
           found == IF ok THEN <<Doc(OwnDoc(r))>> ELSE <<>>
       IN  tasks' = BindLocals(tasks, r,
              [t EXCEPT
                  !.search_results = found,
                  !.outcome = IF t.stream THEN StreamingResponse ELSE Pending,
                  !.pc = IF t.stream THEN "sources" ELSE "gen"])
    /\ UNCHANGED MainVars

\* handle_rag_mode.generate, lines 116-129: the sources event
PairRagSources(r) ==
    /\ tasks[r].pc = "sources"
    /\ LET t == tasks[r]
       IN  tasks' = BindLocals(tasks, r,
              [t EXCEPT
                  !.events = Append(@, [sources |-> StreamSources(t.search_results)]),
                  !.pc = "gen"])
    /\ UNCHANGED MainVars

\* generate_response_with_tools: the completion request is sent and the
\* handler waits for the client
PairGenCall(r) ==
    /\ tasks[r].pc = "call"
    /\ tasks' = BindLocals(tasks, r, [tasks[r] EXCEPT !.pc = "gen"])
    /\ UNCHANGED MainVars

\* the final event after the client raised: chat.py:72, 141, 246
PairGenDone(r) ==
    /\ tasks[r].pc = "done"
    /\ LET t == tasks[r]
       IN  tasks' = BindLocals(tasks, r,
              [t EXCEPT
                  !.events = @ \o (IF t.mode = "agent"
                                   THEN AgentStreamEvents(<<>>, t.action_trace, TRUE)
                                   ELSE <<[done |-> TRUE]>>),
                  !.pc = "closed"])
    /\ UNCHANGED MainVars

\* handle_ask_mode.generate / handle_rag_mode.generate: one item of the stream
PairGenStream(r, item) ==
    /\ tasks[r].pc = "gen"
    /\ tasks[r].mode \in {"ask", "rag"}
    /\ tasks[r].stream
    /\ item \in PairTextItems(r)
    /\ LET t == tasks[r]
       IN  tasks' = BindLocals(tasks, r,
              [t EXCEPT
                  !.consumed = Append(@, item),
                  !.events = @ \o ContentEvents(StreamYield(item))
                               \o (IF item = EndItem THEN <<[done |-> TRUE]>> ELSE <<>>),
                  !.pc = IF item = EndItem THEN "closed"
                         ELSE IF item = RaiseItem THEN "done" ELSE "gen"])
    /\ UNCHANGED MainVars

\* handle_ask_mode / handle_rag_mode, non-streaming
PairGenNonStream(r, frags, ok) ==
    /\ tasks[r].pc = "gen"
    /\ tasks[r].mode \in {"ask", "rag"}
    /\ ~tasks[r].stream
    /\ LET t == tasks[r]
           text == t.response_text \o Concat(NonStreamYield(frags, ok))
       IN  tasks' = BindLocals(tasks, r,
              [t EXCEPT
                  !.consumed = [i \in 1..Len(frags) |-> [content |-> <<frags[i]>>]]
                                  \o <<IF ok THEN EndItem ELSE RaiseItem>>,
                  !.response_text = text,
                  !.outcome = ChatResponse(text, t.mode,
                                           IF t.mode = "rag"
                                           THEN ResponseSources(t.search_results)
                                           ELSE None,
                                           None),
                  !.pc = "closed"])
    /\ UNCHANGED MainVars

\* handle_agent_mode: one item of the completion stream
PairAgentGen(r, item) ==
    /\ tasks[r].pc = "gen"
    /\ tasks[r].mode = "agent"
    /\ item \in PairAgentItems(r)
    /\ LET t == tasks[r]
           yielded == ToolsYield(item)
           tools == SelectSeq(yielded, LAMBDA ch : ch.type = "tool_calls")
           text == AgentResponseText(t.response_text, yielded)
       IN  tasks' = BindLocals(tasks, r,
              [t EXCEPT
                  !.consumed = Append(@, item),
                  !.batch = IF tools # <<>> THEN tools[1].data ELSE <<>>,
                  !.pc = IF item = EndItem THEN "closed"
                         ELSE IF item = RaiseItem
                         THEN (IF t.stream THEN "done" ELSE "closed")
                         ELSE IF tools # <<>> THEN "tools" ELSE "gen",
                  !.events = IF t.stream
                             THEN @ \o AgentStreamEvents(yielded, t.action_trace,
                                                         item = EndItem)
                             ELSE @,
                  !.response_text = IF t.stream THEN @ ELSE text,
                  !.outcome = IF ~t.stream /\ IsFinal(item)
                              THEN ChatResponse(text, "agent", None, t.action_trace)
                              ELSE @])
    /\ UNCHANGED MainVars

\* handle_agent_mode: the next tool call of the batch.  The registry of the
\* chat module holds no server in any state of this specification, so
\* call_tool is never reached and the loop body does not wait for a POST
PairAgentTool(r) ==
    /\ tasks[r].pc = "tools"
    /\ LET t == tasks[r]
           res == IF t.stream
                  THEN StreamToolCall(Head(t.batch), t.function_name,
                                      t.arguments, DispatchRegistry, None)
                  ELSE NonStreamToolCall(Head(t.batch), t.function_name,
                                         t.arguments, DispatchRegistry, None)
       IN  tasks' = BindLocals(tasks, r,
              IF res.raised
              THEN [t EXCEPT
                       !.function_name = res.function_name,
                       !.pc = "closed",
                       !.events = IF t.stream
                                  THEN Append(@, [error |-> "UnboundLocalError"])
                                  ELSE @,
                       !.outcome = IF t.stream THEN @
                                   ELSE ChatExcept(AgentExcept("UnboundLocalError"))]
              ELSE [t EXCEPT
                       !.function_name = res.function_name,
                       !.arguments = res.arguments,
                       !.action_trace = Append(@, res.entry),
                       !.batch = Tail(@),
                       !.pc = IF Tail(t.batch) = <<>> THEN "gen" ELSE "tools",
                       !.events = IF t.stream
                                  THEN @ \o ActionEvents(res.entry) ELSE @])
    /\ UNCHANGED MainVars

PairNext ==
    \E r \in Requests :
        \/ \E m \in ChatMode, s \in BOOLEAN : PairChat(r, m, s)
        \/ \E ok \in BOOLEAN : PairRagSearch(r, ok)
        \/ PairRagSources(r)
        \/ PairGenCall(r)
        \/ \E item \in PairTextItems(r) : PairGenStream(r, item)
        \/ PairGenDone(r)
        \/ \E frags \in SeqsUpTo({OwnFrag(r)}, MaxPairChunks), ok \in BOOLEAN :
              PairGenNonStream(r, frags, ok)
        \/ \E item \in PairAgentItems(r) : PairAgentGen(r, item)
        \/ PairAgentTool(r)

PairSpec == Init /\ [][PairNext]_vars

-----------------------------------------------------------------------------
(* The messages of a request on their way to the generation client *)

\* a request with a history: chat hands all_messages to the handler of the
\* mode, which passes it on (chat.py:66, 133, 153, 202, 262) to the service
\* that builds api_messages from it
MessageInit ==
    /\ RestInit
    /\ apiServers = <<>>
    /\ nextId = 0
    /\ mode = None
    /\ chatServers = <<>>
    /\ search_results = <<>>
    /\ pc = "idle"
    /\ conversation_history \in Histories
    /\ message \in Messages
    /\ messages = <<>>
    /\ api_messages = <<>>

\* every step of the request, in every mode, streamed or not
MessageNext == ChatNext

MessageSpec == MessageInit /\ [][MessageNext]_vars

-----------------------------------------------------------------------------
(* execute_function_call applied to a registry *)

\* MCPService.execute_function_call, lines 239-267: the lookup of the
\* category and of the target and, when there is one, call_tool up to its
\* POST (mcp_service.py:106), where the coroutine waits for the tool server;
\* without a target the method returns its failure at once
DispatchCall(fname) ==
    /\ pc = "dispatch"
    /\ function_name' = fname
    /\ LET posts == execute_function_call_posts(chatServers, fname)
       IN  IF posts # <<>>
           THEN /\ target_server' = FindTarget(chatServers, FunctionMapGet(fname))
                /\ called' = called \cup {"toolserver"}
                /\ resolved' = <<[fname |-> fname,
                                  server |-> ResolveServer(chatServers, fname),
                                  post |-> None,
                                  posts |-> posts,
                                  result |-> NoResponse]>>
                /\ pc' = "post"
           ELSE /\ UNCHANGED <<target_server, called>>
                /\ resolved' = <<[fname |-> fname,
                                  server |-> ResolveServer(chatServers, fname),
                                  post |-> None,
                                  posts |-> posts,
                                  result |-> execute_function_call(chatServers,
                                                                   fname, None)]>>
                /\ pc' = "returned"
    /\ UNCHANGED <<chatServers, apiServers, nextId, regChanged, tasks, msgVars,
                   mcp_tool_call, posted, response>>
    /\ UNCHANGED <<client, mode, stream, context, failed, search_results,
                   consumed, batch, arguments, response_text, action_trace,
                   outcome, snapshot, events>>

\* the POST completes or raises: call_tool, lines 111-131, and
\* execute_function_call, lines 268-281
DispatchReturn(post) ==
    /\ pc = "post"
    /\ resolved' = [resolved EXCEPT
                       ![1].post = post,
                       ![1].result = function_call_result(post_response(post),
                                                          target_server[1].name)]
    /\ failed' = IF post = "ok" THEN failed ELSE failed \cup {"toolserver"}
    /\ pc' = "returned"
    /\ UNCHANGED <<chatServers, apiServers, nextId, regChanged, tasks, msgVars,
                   callVars>>
    /\ UNCHANGED <<client, mode, stream, context, called, search_results,
                   consumed, batch, function_name, arguments, response_text,
                   action_trace, outcome, snapshot, events>>

DispatchInit ==
    /\ RestInit
    /\ apiServers = <<>>
    /\ nextId = 0
    /\ mode = None
    /\ conversation_history = <<>>
    /\ message = <<>>
    /\ messages = <<>>
    /\ api_messages = <<>>
    /\ search_results = <<>>
    /\ chatServers \in Registries
    /\ pc = "dispatch"

DispatchNext ==
    \/ \E fname \in DOMAIN function_map \cup {"get_weather"} : DispatchCall(fname)
    \/ \E post \in {"ok", "fail"} : DispatchReturn(post)

DispatchSpec == DispatchInit /\ [][DispatchNext]_vars

\* format_rag_context applied to a document sequence
FormatContext ==
    /\ pc = "format"
    /\ context' = format_rag_context(search_results)
    /\ pc' = "formatted"
    /\ RegistryUnchanged
    /\ UNCHANGED <<client, mode, stream, called, failed, search_results,
                   consumed, batch, function_name, arguments, response_text,
                   action_trace, resolved, outcome, snapshot, events>>

FormatInit ==
    /\ RestInit
    /\ apiServers = <<>>
    /\ nextId = 0
    /\ mode = None
    /\ conversation_history = <<>>
    /\ message = <<>>
    /\ messages = <<>>
    /\ api_messages = <<>>
    /\ chatServers = <<>>
    /\ search_results \in FormatInputs
    /\ pc = "format"

FormatNext == FormatContext

FormatSpec == FormatInit /\ [][FormatNext]_vars

Spec == Init /\ [][Next]_vars

\* every handler step is a task of the event loop and is eventually run
FairSpec == Spec /\ WF_vars(ChatNext)

-----------------------------------------------------------------------------
(* Properties *)

Closed == pc = "closed"

IsContent(e) == "content" \in DOMAIN e
IsSources(e) == "sources" \in DOMAIN e
IsAction(e) == "action" \in DOMAIN e
IsError(e) == "error" \in DOMAIN e
IsDone(e) == "done" \in DOMAIN e

Count(s, P(_)) == Cardinality({i \in 1..Len(s) : P(s[i])})

\* every tool call the generation client has requested so far, in order
AllCalls ==
    Concat([i \in 1..Len(consumed) |->
               IF HasToolCalls(consumed[i]) THEN consumed[i].tool_calls ELSE <<>>])

\* the tool calls whose loop iteration has completed
Invoked == SubSeq(AllCalls, 1, Len(AllCalls) - Len(batch))

ParsedArgs == {json_loads(a) : a \in {r \in RawArgs : JsonValid(r)}}

\* C1 as stated: a request whose mode is none of ask, rag, agent fails with
\* the "Unsupported chat mode" error of chat() and has invoked no external
\* client.
C1_UnsupportedMode ==
    (Closed /\ mode \notin ChatMode) =>
        /\ outcome.status = 400
        /\ "text" \in DOMAIN outcome.detail
        /\ outcome.detail.text = "Unsupported chat mode: "
        /\ called = {}

\* C1, amended: a request whose mode is none of ask, rag, agent is rejected
\* when its body is validated, with a 422 that names the field mode; chat()
\* is not called (no message list is built, no event is written), no
\* external client is invoked, and nothing happens to the request afterwards.
C1_InvalidModeRejected ==
    /\ []((mode \notin ChatMode \cup {None}) =>
              /\ Closed
              /\ outcome.status = 422
              /\ outcome.detail.loc = <<"body", "mode">>
              /\ called = {}
              /\ messages = <<>> /\ api_messages = <<>>
              /\ events = <<>>)
    /\ [][(mode \notin ChatMode \cup {None}) => UNCHANGED reqVars]_vars

C1_Witness ==
    /\ mode = OtherMode
    /\ Closed
    /\ outcome.status = 422

\* C2: a finished stream, in every mode and for every outcome of the
\* generation client, holds exactly one Done event, and it is the last event.
C2_ExactlyOneDoneLast ==
    (Closed /\ stream /\ mode \in ChatMode) =>
        /\ events # <<>>
        /\ IsDone(Last(events))
        /\ Count(events, IsDone) = 1

\* C3: in a streamed RAG request the first event is the Sources event, it is
\* determined by the retrieval results (one source per document, in order),
\* no Content event precedes it, and Done is the last event.
C3_RagSourcesFirst ==
    (mode = "rag" /\ stream) =>
        /\ events # <<>> =>
              /\ events[1] = [sources |-> StreamSources(search_results)]
              /\ Len(events[1].sources) = Len(search_results)
              /\ \A i \in 1..Len(search_results) :
                    events[1].sources[i].id = search_results[i].id
        /\ \A i \in 1..Len(events) :
              IsContent(events[i]) => \E j \in 1..(i - 1) : IsSources(events[j])
        /\ Count(events, IsSources) <= 1
        /\ Closed => (events # <<>> /\ IsDone(Last(events)))

C3_Witness ==
    /\ mode = "rag" /\ stream /\ Closed
    /\ search_results # <<>>
    /\ Count(events, IsContent) >= 2

\* an entry records a tool call: its function name and its parsed arguments;
\* for a call whose arguments do not parse, no arguments of another call
EntryRecords(e, tool_call) ==
    /\ e.action = tool_call.function.name
    /\ IF JsonValid(tool_call.function.arguments)
       THEN e.parameters = json_loads(tool_call.function.arguments)
       ELSE /\ e.parameters \notin ParsedArgs
            /\ e.success = FALSE

\* C4: in Agent mode the trace has exactly one entry per tool invocation
\* received, in invocation order, entry i recording invocation i, whether
\* the invocation succeeded or failed (also on unparseable arguments).
C4_TracePerInvocation ==
    mode = "agent" =>
        /\ Len(action_trace) = Len(Invoked)
        /\ \A i \in 1..Len(action_trace) : EntryRecords(action_trace[i], Invoked[i])
        /\ Closed => Len(action_trace) = Len(AllCalls)

ServerFailures ==
    {<<"No active server found for ", f>> : f \in DOMAIN function_map}
    \cup {<<"call failed">>, <<"Server not found">>, <<"Server is not active">>}

FailedOnServer(e) ==
    /\ "result" \in DOMAIN e
    /\ ~e.result.success
    /\ e.result.error \in ServerFailures

Aborted ==
    \/ outcome.status = 500
    \/ \E i \in 1..Len(events) : events[i] = [error |-> "UnboundLocalError"]

\* C5: a tool invocation that finds no active server, or whose server call
\* fails, is recorded with success = FALSE and does not abort the request:
\* the rest of the batch is executed and the request completes with Done
\* (streaming) or a Response (non-streaming) carrying the whole trace.
C5_ServerFailureRecorded ==
    \A i \in 1..Len(action_trace) :
        FailedOnServer(action_trace[i]) =>
            /\ action_trace[i].success = FALSE
            /\ ~Aborted
            /\ Closed =>
                  /\ Len(action_trace) = Len(AllCalls)
                  /\ stream =>
                        Last(events) = [tool_calls |-> action_trace, done |-> TRUE]
                  /\ ~stream =>
                        /\ outcome.status = 200
                        /\ outcome.tool_calls = action_trace

\* a request whose first call reaches a matching server and fails there,
\* and whose second call is served
C5_Witness ==
    /\ mode = "agent" /\ Closed /\ stream
    /\ Len(action_trace) = 2
    /\ FailedOnServer(action_trace[1])
    /\ action_trace[1].result.error = <<"call failed">>
    /\ action_trace[2].success
    /\ Last(events) = [tool_calls |-> action_trace, done |-> TRUE]

\* C6: with a generation client that asks for another tool call after every
\* round, the request stops after the maximum number of tool rounds (8).
C6_RoundLimit ==
    (mode = "agent" /\ client = "tool_loop") => ToolRounds <= 8

\* C8: when the retrieval or the generation client fails, a stream ends with
\* one terminal Error event and carries the failure neither as Content nor
\* as an empty result, and a non-streaming request returns no successful
\* response.
C8_FailureSurfaced ==
    (Closed /\ mode \in ChatMode /\ failed \cap {"retrieval", "generation"} # {}) =>
        IF stream
        THEN /\ events # <<>>
             /\ IsError(Last(events))
             /\ Count(events, IsError) = 1
             /\ \A i \in 1..Len(events) :
                   IsContent(events[i]) => events[i].content # ErrText
        ELSE outcome.status # 200

\* C9: every streamed request ends, and the last event of an ended stream is
\* Done or Error.
C9_StreamEnds ==
    /\ []((Closed /\ stream /\ mode \in ChatMode) =>
            (events # <<>> /\ (IsDone(Last(events)) \/ IsError(Last(events)))))
    /\ ((pc # "idle" /\ stream) ~> Closed)

C9_Witness ==
    /\ Closed /\ stream /\ mode = "agent"
    /\ Count(events, IsAction) >= 1
    /\ Count(events, IsContent) >= 1
    /\ IsDone(Last(events))

\* C10, as far as the program shows it: every tool invocation of a request
\* resolves to the server it would resolve to among the active servers of
\* the dispatch registry when the request arrived.  Dispatch reads the
\* registry live (mcp_service.py:248); the formula holds because no registry
\* operation reaches the registry of the chat module (C11), not because of
\* a snapshot.
C10_SnapshotResolution ==
    \A i \in 1..Len(resolved) :
        resolved[i].server = ResolveServer(snapshot, resolved[i].fname)

\* a finished request compared with the run of the other kind (streaming
\* against non-streaming) on the same completion stream and tool outcomes
SameAsOtherRun ==
    IF mode = "agent"
    THEN LET other == AgentRun(consumed, ~stream) IN
         IF Aborted THEN other.raised
         ELSE /\ ~other.raised
              /\ IF stream
                 THEN /\ StreamedContent(events) = other.text
                      /\ Last(events).tool_calls = other.trace
                 ELSE /\ outcome.response = other.text
                      /\ outcome.tool_calls = other.trace
    ELSE IF stream
         THEN StreamedContent(events) = TextRun(consumed, FALSE)
         ELSE outcome.response = TextRun(consumed, TRUE)

\* C7: for every mode and request, the streaming and the non-streaming run
\* on the same completion stream and tool outcomes give the same aggregate
\* content and the same final action trace.
C7_StreamingRefines ==
    (Closed /\ mode \in ChatMode) => SameAsOtherRun


\* C11: Agent-mode dispatch reads the registry that the registry operations
\* mutate: an invocation of a mapped function is dispatched to the first
\* active matching server registered through register_server, and to no
\* server once that one is deactivated or removed.
C11_SharedRegistry ==
    [][(pc = "tools" /\ Len(resolved') = Len(resolved) + 1) =>
          Last(resolved').server =
              ResolveServer(apiServers, Head(batch).function.name)]_vars


\* C12: format_rag_context of an empty document sequence is the sentinel, no
\* input gives the empty string, and the RAG prompt built from the result
\* carries it (document blocks or the sentinel).
C12_SentinelNeverEmpty ==
    pc = "formatted" =>
        /\ search_results = <<>> => context = Sentinel
        /\ context # <<>>
        /\ \A i \in 1..Len(context) : context[i] # ""
        /\ IsSubstring(context, get_system_prompt("rag", context))

C12_Witness ==
    /\ pc = "formatted"
    /\ search_results = <<>>
    /\ context = Sentinel


\* C13: in the streamed Sources event, a document whose chunk text is longer
\* than 200 characters has as preview exactly its first 200 characters
\* followed by the truncation marker, and a document whose chunk text has 200
\* characters or fewer has the chunk text unmodified.
C13_PreviewTruncation ==
    (mode = "rag" /\ stream /\ events # <<>>) =>
        /\ IsSources(events[1])
        /\ Len(events[1].sources) = Len(search_results)
        /\ \A i \in 1..Len(search_results) :
              LET chunk == search_results[i].chunk
                  shown == events[1].sources[i].content
              IN  IF Len(chunk) > 200
                  THEN /\ Len(shown) = 200 + Len(Marker)
                       /\ SubSeq(shown, 1, 200) = SubSeq(chunk, 1, 200)
                       /\ SubSeq(shown, 201, Len(shown)) = Marker
                  ELSE shown = chunk

C13_Witness ==
    /\ mode = "rag" /\ stream /\ events # <<>>
    /\ \E i \in 1..Len(search_results) :
          /\ Len(search_results[i].chunk) = 250
          /\ Len(events[1].sources[i].content) = 203
    /\ \E i \in 1..Len(search_results) :
          /\ Len(search_results[i].chunk) = 150
          /\ events[1].sources[i].content = search_results[i].chunk


\* the tool calls among the items a request's client has produced
CallsIn(items) ==
    Concat([i \in 1..Len(items) |->
               IF HasToolCalls(items[i]) THEN items[i].tool_calls ELSE <<>>])

\* the content a request's client has produced, as the handler passes it on
OwnContent(t) ==
    IF t.mode = "agent"
    THEN Concat([i \in 1..Len(t.consumed) |->
                    IF IsChunk(t.consumed[i]) THEN t.consumed[i].content ELSE <<>>])
    ELSE TextRun(t.consumed, t.stream)

\* C14: with two requests handled concurrently, in any interleaving, each
\* request's messages are its own, its trace holds exactly the invocations
\* issued for it, and its content holds exactly its own fragments.
C14_RequestIsolation ==
    \A r \in Requests :
        LET t == tasks[r] IN
        t.pc # "idle" =>
            /\ t.messages = all_messages(OwnHistory(r), OwnMessage(r))
            /\ Len(t.action_trace) = Len(CallsIn(t.consumed)) - Len(t.batch)
            /\ \A i \in 1..Len(t.action_trace) :
                  /\ t.action_trace[i].parameters = json_loads(OwnArgs(r))
                  /\ t.action_trace[i].action =
                        CallsIn(t.consumed)[i].function.name
            /\ IF t.stream
               THEN StreamedContent(t.events) = OwnContent(t)
               ELSE t.response_text = OwnContent(t)
            /\ \A i \in 1..Len(t.events) :
                  IsSources(t.events[i]) =>
                      \A j \in 1..Len(t.events[i].sources) :
                          t.events[i].sources[j].id = OwnDoc(r)

C14_Witness ==
    /\ tasks[1].pc = "gen" /\ tasks[2].pc = "gen"
    /\ tasks[1].mode = "agent" /\ tasks[2].mode = "agent"
    /\ Len(tasks[1].action_trace) = 1 /\ Len(tasks[2].action_trace) = 1
    /\ StreamedContent(tasks[1].events) = <<"a">>
    /\ tasks[2].response_text = <<"b">>


\* C15: once a streamed request is cancelled, at whatever point, no further
\* event is written to its stream, and the trace entries completed before the
\* cancellation are neither removed nor altered.
C15_CancelStopsStream ==
    [][pc' \in {"cancelling", "cancelled"} =>
          (events' = events /\ action_trace' = action_trace)]_vars

C15_Witness ==
    /\ pc = "cancelled" /\ stream /\ mode = "agent"
    /\ action_trace # <<>>
    /\ Count(events, IsAction) = Len(action_trace)
    /\ ~IsDone(Last(events))


\* C16: in every mode, the messages handed on for generation are the
\* request's history in its original order followed by the current user
\* message exactly once, as the last element; the generation service puts its
\* system prompt in front and copies role and content of every message
\* unchanged, dropping, duplicating or reordering none.
C16_MessagesPassedUnmodified ==
    (pc # "idle" /\ mode \in ChatMode) =>
        /\ Len(messages) = Len(conversation_history) + 1
        /\ SubSeq(messages, 1, Len(conversation_history)) = conversation_history
        /\ Last(messages).role = "user"
        /\ Last(messages).content = message
        /\ "generation" \in called =>
              /\ Len(api_messages) = Len(messages) + 1
              /\ api_messages[1].role = "system"
              /\ \A i \in 1..Len(messages) :
                    /\ api_messages[i + 1].role = messages[i].role
                    /\ api_messages[i + 1].content = messages[i].content

C16_Witness ==
    /\ "generation" \in called
    /\ mode = "rag"
    /\ Len(conversation_history) = 2
    /\ conversation_history[1].content = message
    /\ conversation_history[2].role = "assistant"
    /\ Len(api_messages) = 4


\* the characters of a text given as a sequence of strings
TextChars(text) == Concat([i \in 1..Len(text) |-> Chars(text[i])])

NoServerEntry(e) ==
    /\ "result" \in DOMAIN e
    /\ ~e.result.success
    /\ e.result.error = <<"No active server found for ", e.action>>

\* C17: when no active server matches the category of a function, the trace
\* entry has success = FALSE and an error that names the category searched,
\* and the remaining invocations of the batch are processed.
C17_NoServerNamesCategory ==
    \A i \in 1..Len(action_trace) :
        NoServerEntry(action_trace[i]) =>
            /\ action_trace[i].success = FALSE
            /\ IsSubstring(Chars(function_map[action_trace[i].action]),
                           TextChars(action_trace[i].result.error))
            /\ ~Aborted
            /\ Closed => Len(action_trace) = Len(AllCalls)


\* the positions of the active servers of a registry whose name matches a category
Matching(servers, category) ==
    {i \in 1..Len(servers) :
        servers[i].is_active /\ NameMatches(category, servers[i].name)}

\* C18: for every registry state and every function of the function map,
\* execute_function_call sends exactly one call, to the first server in
\* registration order that is active and matches the category, and none to a
\* later matching server, also when the call to the first one fails (and it
\* sends no call when no active server matches).
C18_FirstMatchOnly ==
    (pc = "returned" /\ resolved[1].fname \in DOMAIN function_map) =>
        LET hits == Matching(chatServers, function_map[resolved[1].fname]) IN
        IF hits = {}
        THEN resolved[1].posts = <<>>
        ELSE LET first == CHOOSE i \in hits : \A j \in hits : i <= j
             IN  /\ resolved[1].posts = <<chatServers[first].id>>
                 /\ resolved[1].result.server = chatServers[first].name
                 /\ resolved[1].result.success = (resolved[1].post = "ok")

C18_Witness ==
    /\ pc = "returned"
    /\ resolved[1].fname = "web_search"
    /\ resolved[1].post = "fail"
    /\ Len(chatServers) = 3
    /\ Matching(chatServers, "web-browse") = {2, 3}
    /\ NameMatches("web-browse", chatServers[1].name)
    /\ resolved[1].posts = <<2>>


\* the blocks of a context: the texts between the separators
RECURSIVE Blocks(_, _)
Blocks(text, current) ==
    IF text = <<>> THEN <<current>>
    ELSE IF <<Head(text)>> = Separator
    THEN <<current>> \o Blocks(Tail(text), <<>>)
    ELSE Blocks(Tail(text), Append(current, Head(text)))

IsPrefix(a, b) == Len(a) <= Len(b) /\ SubSeq(b, 1, Len(a)) = a

\* C19: for a non-empty document sequence format_rag_context gives exactly
\* one block per document, the i-th block headed 'Document i' (from 1) with
\* the title of the i-th document, in input order, repeated documents
\* included, and the same input always gives the same output.
C19_OneBlockPerDocument ==
    (pc = "formatted" /\ search_results # <<>>) =>
        LET blocks == Blocks(context, <<>>) IN
        /\ Len(blocks) = Len(search_results)
        /\ \A i \in 1..Len(search_results) :
              LET doc == search_results[i]
                  title == IF "title" \in DOMAIN doc THEN doc.title
                           ELSE <<"Unknown">>
                  text == IF "chunk" \in DOMAIN doc THEN doc.chunk
                          ELSE IF "content" \in DOMAIN doc THEN doc.content
                          ELSE <<>>
              IN  /\ IsPrefix(<<"Document ", Digits[i + 1], ": ">> \o title
                                 \o <<"\n">>, blocks[i])
                  /\ text # <<>> =>
                        IsSubstring(<<"Content: ">> \o text, blocks[i])
        /\ context = format_rag_context(search_results)

C19_Witness ==
    /\ pc = "formatted"
    /\ Len(search_results) = 3
    /\ search_results[1] = search_results[3]
    /\ search_results[1] # search_results[2]
    /\ Len(Blocks(context, <<>>)) = 3


\* the sources a RAG request has returned to the caller so far
ReturnedSources ==
    IF stream
    THEN (IF events # <<>> /\ IsSources(events[1]) THEN events[1].sources ELSE <<>>)
    ELSE (IF outcome.status = 200 THEN outcome.sources ELSE <<>>)

\* C20: in every RAG request, streaming or not, the content of each source
\* returned to the caller holds at most 200 characters of the chunk text
\* plus the truncation marker.
C20_SourcesCapped ==
    mode = "rag" =>
        \A i \in 1..Len(ReturnedSources) :
            Len(ReturnedSources[i].content) <= 200 + Len(Marker)

\* C21: in a streaming Agent request the Action event of an invocation is
\* written in the very step that completes its entry, before the next
\* invocation of the batch starts; in a non-streaming one nothing is
\* returned or written to the caller before the final Response.
C21_ActionBeforeNext ==
    /\ []((mode = "agent" /\ ~stream /\ ~Closed) =>
              (events = <<>> /\ outcome = Pending))
    /\ [][(mode = "agent" /\ Len(action_trace') = Len(action_trace) + 1) =>
              IF stream
              THEN events' = Append(events, [action |-> Last(action_trace')])
              ELSE events' = <<>> /\ outcome' = Pending]_vars

C21_Witness ==
    /\ mode = "agent" /\ stream /\ pc = "tools"
    /\ Len(action_trace) = 1
    /\ Len(batch) = 1
    /\ Last(events) = [action |-> action_trace[1]]

\* what the loop of handle_agent_mode.generate has produced so far, in order:
\* the fragment of each item, then its invocations (all of them once the
\* stream is over, those before the remaining batch while it is running)
Produced ==
    LET done == Len(AllCalls) - (IF Closed THEN 0 ELSE Len(batch))
        before(i) == Len(Concat([j \in 1..(i - 1) |->
                            IF HasToolCalls(consumed[j])
                            THEN consumed[j].tool_calls ELSE <<>>]))
        calls(i) == IF HasToolCalls(consumed[i])
                    THEN SelectSeq([k \in 1..Len(consumed[i].tool_calls) |->
                                      [n |-> before(i) + k,
                                       c |-> consumed[i].tool_calls[k]]],
                                   LAMBDA x : x.n <= done)
                    ELSE <<>>
    IN  Concat([i \in 1..Len(consumed) |->
           (IF IsChunk(consumed[i]) /\ consumed[i].content # <<>>
            THEN <<[kind |-> "content", data |-> consumed[i].content]>>
            ELSE <<>>)
           \o [k \in 1..Len(calls(i)) |->
                 [kind |-> "action", data |-> calls(i)[k].c.function.name]]])

\* the Content and Action events written so far, in order
Written ==
    LET shown == SelectSeq(events, LAMBDA e : IsContent(e) \/ IsAction(e))
    IN  [i \in 1..Len(shown) |->
           IF IsContent(shown[i])
           THEN [kind |-> "content", data |-> shown[i].content]
           ELSE [kind |-> "action", data |-> shown[i].action.action]]

\* C22: in a streaming Agent request the Content and Action events appear
\* in exactly the order in which the loop produced the fragments and the
\* invocations: one Content event per fragment, one Action event per
\* invocation, none overtaking another.
C22_EventOrder ==
    (mode = "agent" /\ stream) => Written = Produced

\* C23: in every streaming mode, once an Error event has been written the
\* stream ends: no Done event (and no other event) follows it.
C23_ErrorEndsStream ==
    stream =>
        \A i \in 1..Len(events) : IsError(events[i]) => i = Len(events)

\* the number of tool calls requested by the items before item j
CallsBefore(j) ==
    Len(Concat([i \in 1..(j - 1) |->
                   IF HasToolCalls(consumed[i]) THEN consumed[i].tool_calls
                   ELSE <<>>]))

\* the messages of the completion call that carry a tool result
ToolResultMessages ==
    SelectSeq(api_messages, LAMBDA m : m.role \in {"tool", "function"})

\* C24: in Agent mode the generation that follows a tool round is produced
\* by a completion call whose conversation context has the results of the
\* earlier rounds appended.
C24_ResultsFedBack ==
    mode = "agent" =>
        \A j \in 1..Len(consumed) :
            IsChunk(consumed[j]) =>
                Len(ToolResultMessages) >= CallsBefore(j)

\* C25: every trace entry records the function name and the parameters of
\* the invocation that produced it; an invocation whose arguments do not
\* parse gets an entry that carries nothing of an earlier invocation, and
\* does not end the request without an entry.
C25_EntryOfOwnInvocation ==
    mode = "agent" =>
        /\ \A i \in 1..Len(action_trace) :
               /\ i <= Len(AllCalls)
               /\ EntryRecords(action_trace[i], AllCalls[i])
        /\ ~Aborted

\* the payloads of the Action events written so far, in order
ActionPayloads ==
    LET shown == SelectSeq(events, IsAction)
    IN  [i \in 1..Len(shown) |-> shown[i].action]

\* C26: in a streaming Agent request the accumulated trace is at every
\* point the sequence of the payloads of the Action events written so far,
\* and the trace of the Done event is the in-order sequence of all of them.
C26_TraceIsActionPayloads ==
    (mode = "agent" /\ stream) =>
        /\ action_trace = ActionPayloads
        /\ \A i \in 1..Len(events) :
               IsDone(events[i]) => events[i].tool_calls = ActionPayloads

C26_Witness ==
    /\ mode = "agent" /\ stream /\ Closed
    /\ Len(ActionPayloads) = 2
    /\ IsDone(Last(events))
    /\ ActionPayloads[1] # ActionPayloads[2]

-----------------------------------------------------------------------------
(* Dispatch through the registry module (mcp.py /proxy and /tools/call),   *)
(* interleaved with its registry endpoints.  A coroutine runs without      *)
(* interruption up to an await that suspends; awaiting call_tool itself    *)
(* does not suspend, so execute_function_call runs from its entry to the   *)
(* client.post of call_tool in one step, and the registry endpoints (which *)
(* mutate the dict without awaiting) run in one step each.                 *)

MaxPosts == 2

\* the ids a caller may name: those of the servers and one never registered
CallIds == 1..(MaxServers + 1)

CallFrame ==
    /\ UNCHANGED <<chatServers, apiServers, nextId, regChanged, tasks, msgVars>>
    /\ UNCHANGED <<client, mode, stream, search_results, context,
                   consumed, batch, arguments, response_text, action_trace,
                   snapshot, resolved, events, outcome>>

\* call_tool, lines 79-110: the two checks and, when they pass, the POST;
\* the POST is recorded with the state of the registry when it is issued
StartCallTool(call, target) ==
    IF call_tool_posts(apiServers, call.server_id)
    THEN /\ posted' = Append(posted,
                [server_id |-> call.server_id,
                 registered |-> \E i \in 1..Len(apiServers) :
                                   apiServers[i].id = call.server_id,
                 active |-> \E i \in 1..Len(apiServers) :
                               /\ apiServers[i].id = call.server_id
                               /\ apiServers[i].is_active])
         /\ response' = NoResponse
         /\ called' = called \cup {"toolserver"}
         /\ pc' = "post"
    ELSE /\ posted' = posted
         /\ called' = called
         /\ response' = IF target = <<>>
                        THEN call_tool(apiServers, call.server_id, None)
                        ELSE function_call_result(
                                 call_tool(apiServers, call.server_id, None),
                                 target[1].name)
         /\ pc' = "returned"

\* mcp.py proxy_tool_call: execute_function_call up to the POST of call_tool
ProxyToolCall(fname) ==
    /\ pc = "idle"
    /\ Len(posted) < MaxPosts
    /\ function_name' = fname
    /\ LET server_type == FunctionMapGet(fname)
           target == IF server_type = None THEN <<>>
                     ELSE FindTarget(apiServers, server_type)
       IN  /\ target_server' = target
           /\ IF target = <<>>
              THEN /\ mcp_tool_call' = NoToolCall
                   /\ response' = execute_function_call(apiServers, fname, None)
                   /\ posted' = posted
                   /\ called' = called
                   /\ pc' = "returned"
              ELSE /\ mcp_tool_call' = [tool_name |-> fname,
                                        server_id |-> target[1].id]
                   /\ StartCallTool(mcp_tool_call', target)
    /\ UNCHANGED failed
    /\ CallFrame

\* mcp.py call_tool: MCPService.call_tool up to its POST
ToolCallEndpoint(tool_name, server_id) ==
    /\ pc = "idle"
    /\ Len(posted) < MaxPosts
    /\ function_name' = None
    /\ target_server' = <<>>
    /\ mcp_tool_call' = [tool_name |-> tool_name, server_id |-> server_id]
    /\ StartCallTool(mcp_tool_call', <<>>)
    /\ UNCHANGED failed
    /\ CallFrame

\* the POST completes or raises: call_tool, lines 111-131, and
\* execute_function_call, lines 268-281
PostReturn(post) ==
    /\ pc = "post"
    /\ response' = IF target_server = <<>> THEN post_response(post)
                   ELSE function_call_result(post_response(post),
                                             target_server[1].name)
    /\ failed' = IF post = "ok" THEN failed ELSE failed \cup {"toolserver"}
    /\ pc' = "returned"
    /\ UNCHANGED <<function_name, mcp_tool_call, target_server, posted, called>>
    /\ CallFrame

\* the response of the endpoint is sent to its caller
EndpointReturn ==
    /\ pc = "returned"
    /\ pc' = "idle"
    /\ UNCHANGED <<function_name, callVars, called, failed>>
    /\ CallFrame

ProxyInit ==
    /\ RestInit
    /\ apiServers = <<>>
    /\ nextId = 0
    /\ mode = None
    /\ conversation_history = <<>>
    /\ message = <<>>
    /\ messages = <<>>
    /\ api_messages = <<>>
    /\ search_results = <<>>
    /\ chatServers = <<>>
    /\ pc = "idle"

ProxyNext ==
    \/ \E fname \in DOMAIN function_map \cup {"get_weather"} : ProxyToolCall(fname)
    \/ \E id \in CallIds : ToolCallEndpoint("web_search", id)
    \/ \E post \in {"ok", "fail"} : PostReturn(post)
    \/ EndpointReturn
    \/ \E name \in ServerNames : RegisterServer(name)
    \/ \E id \in CallIds : RemoveServer(id)
    \/ \E id \in CallIds : DeactivateServer(id)
    \/ \E id \in CallIds : ActivateServer(id)

ProxySpec == ProxyInit /\ [][ProxyNext]_vars

\* the server is registered and active
Usable(servers, id) ==
    \E i \in 1..Len(servers) : servers[i].id = id /\ servers[i].is_active

\* C27: whatever registry operations interleave with dispatch, every POST
\* goes to a server that is registered and active at the moment it is
\* issued, and a call_tool that names an unregistered or inactive server
\* returns success = FALSE without a POST.
C27_NoCallToUnusableServer ==
    /\ [](\A i \in 1..Len(posted) : posted[i].registered /\ posted[i].active)
    /\ [][(pc = "idle" /\ pc' # "idle" /\ mcp_tool_call' # NoToolCall
            /\ ~Usable(apiServers, mcp_tool_call'.server_id)) =>
              (pc' = "returned" /\ response'.success = FALSE /\ posted' = posted)]_vars

\* a second call to a server that was removed after the first call to it
C27_Witness ==
    /\ pc = "returned"
    /\ Len(posted) = 1
    /\ posted[1].server_id = mcp_tool_call.server_id
    /\ ~Usable(apiServers, mcp_tool_call.server_id)
    /\ response.success = FALSE

\* C28: execute_function_call with a function name that is not in the map
\* returns the failure "Unknown function: <name>" whatever the registry
\* holds, sends no call to any server and leaves the registry as it was.
C28_UnknownFunctionFails ==
    /\ []((pc = "returned" /\ function_name \notin DOMAIN function_map) =>
              /\ resolved[1].result =
                    [success |-> FALSE,
                     error |-> <<"Unknown function: ", function_name>>]
              /\ resolved[1].posts = <<>>)
    /\ [][pc' = "returned" => chatServers' = chatServers]_vars

C28_Witness ==
    /\ pc = "returned"
    /\ function_name = "get_weather"
    /\ Len(get_active_servers(chatServers)) = MaxRegistry
    /\ ~resolved[1].result.success

-----------------------------------------------------------------------------
(* remove_server and deactivate_server applied to a registry *)

\* the ids of the servers of a registry and one that is not registered
RegistryIds == 1..(MaxRegistry + 1)

MethodFrame ==
    /\ UNCHANGED <<chatServers, nextId, regChanged, reqVars, tasks, msgVars>>
    /\ UNCHANGED <<mcp_tool_call, target_server, posted>>

\* MCPService.remove_server(server_id)
RemoveServerCall(id) ==
    /\ apiServers' = remove_server(apiServers, id)
    /\ response' = [op |-> "remove_server", server_id |-> id,
                    returned |-> remove_server_returns(apiServers, id)]
    /\ MethodFrame

\* MCPService.deactivate_server(server_id)
DeactivateServerCall(id) ==
    /\ apiServers' = deactivate_server(apiServers, id)
    /\ response' = [op |-> "deactivate_server", server_id |-> id,
                    returned |-> deactivate_server_returns(apiServers, id)]
    /\ MethodFrame

RegistryInit ==
    /\ RestInit
    /\ mode = None
    /\ conversation_history = <<>>
    /\ message = <<>>
    /\ messages = <<>>
    /\ api_messages = <<>>
    /\ search_results = <<>>
    /\ chatServers = <<>>
    /\ apiServers \in Registries
    /\ nextId = Len(apiServers)
    /\ pc = "idle"

RegistryCalls ==
    \/ \E id \in RegistryIds : RemoveServerCall(id)
    \/ \E id \in RegistryIds : DeactivateServerCall(id)

RegistrySpec == RegistryInit /\ [][RegistryCalls]_vars

\* the servers of a registry other than id, in order
Others(servers, id) ==
    LET at == {i \in 1..Len(servers) : servers[i].id # id}
        nth(k) == CHOOSE i \in at : Cardinality({j \in at : j < i}) = k - 1
    IN  [k \in 1..Cardinality(at) |-> servers[nth(k)]]

Registered(servers, id) == \E i \in 1..Len(servers) : servers[i].id = id

\* C29: deactivate_server and remove_server return False on an id that is
\* not registered and leave the registry as it was; on a registered id they
\* return True and change that server only: deactivate clears its active
\* flag and nothing else, remove deletes it and nothing else.  Deactivating
\* an inactive server changes nothing.
C29_RegistryFrame ==
    [][LET id == response'.server_id
           hit == Registered(apiServers, id)
       IN  /\ response'.returned = hit
           /\ ~hit => apiServers' = apiServers
           /\ Others(apiServers', id) = Others(apiServers, id)
           /\ (hit /\ response'.op = "remove_server") =>
                  /\ ~Registered(apiServers', id)
                  /\ Len(apiServers') = Len(apiServers) - 1
           /\ (hit /\ response'.op = "deactivate_server") =>
                  /\ Len(apiServers') = Len(apiServers)
                  /\ \A i \in 1..Len(apiServers) :
                         apiServers[i].id = id =>
                             apiServers'[i] =
                                 [apiServers[i] EXCEPT !.is_active = FALSE]
                  /\ (~Usable(apiServers, id) => apiServers' = apiServers)
      ]_vars

\* a server in the middle of a full registry has been deactivated and the
\* servers around it are still active
C29_Witness ==
    /\ response = [op |-> "deactivate_server", server_id |-> 2, returned |-> TRUE]
    /\ Len(apiServers) = MaxRegistry
    /\ ~apiServers[2].is_active
    /\ apiServers[1].is_active /\ apiServers[3].is_active

-----------------------------------------------------------------------------
(* The Agent handler over a registry that holds servers *)

EntryInit ==
    /\ RestInit
    /\ apiServers = <<>>
    /\ nextId = 0
    /\ mode = None
    /\ conversation_history = <<>>
    /\ message = <<>>
    /\ messages = <<>>
    /\ api_messages = <<>>
    /\ search_results = <<>>
    /\ chatServers \in Registries
    /\ pc = "idle"

EntryNext ==
    \/ \E s \in BOOLEAN : Chat("agent", s, "free")
    \/ GenCall
    \/ \E item \in AgentItems : AgentGen(item)
    \/ GenDone
    \/ \E post \in {"ok", "fail"} : AgentTool(post)

EntrySpec == EntryInit /\ [][EntryNext]_vars

\* the number of invocations up to the i-th whose arguments parsed
ParsedUpTo(i) ==
    Cardinality({j \in 1..i : JsonValid(AllCalls[j].function.arguments)})

\* the i-th invocation was sent to a registered, active server whose name
\* matches the category of its function, and the call returned without error
ServedBy(i) ==
    LET tool_call == AllCalls[i]
        k == ParsedUpTo(i)
    IN  /\ JsonValid(tool_call.function.arguments)
        /\ tool_call.function.name \in DOMAIN function_map
        /\ \E n \in Matching(chatServers, function_map[tool_call.function.name]) :
               /\ chatServers[n].id = resolved[k].server
               /\ action_trace[i].result.server = chatServers[n].name
        /\ resolved[k].post = "ok"

\* C30: every trace entry carries a boolean success flag, and the flag is
\* TRUE exactly when a registered, active, matching server was selected and
\* its call returned without error; unknown function, no matching server, a
\* failed call and an exception all give FALSE.
C30_SuccessFlag ==
    mode = "agent" =>
        \A i \in 1..Len(action_trace) :
            /\ action_trace[i].success \in BOOLEAN
            /\ action_trace[i].success = ServedBy(i)

C30_Witness ==
    /\ Closed
    /\ Len(action_trace) = 2
    /\ action_trace[1].success
    /\ ~action_trace[2].success
    /\ AllCalls[2].function.name = "web_search"
    /\ JsonValid(AllCalls[2].function.arguments)

====
